---- MODULE Spec2Model ----
(***************************************************************************)
(* Model of the car_scraping ORM layer (orm/database.py, orm/base.py) and  *)
(* of the database bootstrap routine (database_config/initialize.py).      *)
(*                                                                         *)
(* Three specifications share the module:                                  *)
(*   Spec      the Database singleton, its statements and BaseModel        *)
(*   SpecStmt  the construction of the INSERT statement (a pure function)  *)
(*   SpecBoot  runs of initialize_database                                 *)
(*                                                                         *)
(* Python values: a str that the code inspects character by character (a   *)
(* column name) is a sequence of one-character strings; a list is a        *)
(* sequence; a dict is a sequence of <<key, value>> pairs with distinct    *)
(* keys, in insertion order.                                               *)
(***************************************************************************)
EXTENDS Integers, Sequences, FiniteSets, TLC

\* ------------------------------------------------------------------ bounds
\* longest columns / values / record_id list passed to an ORM operation
MaxLen == 1
\* most rows the table holds (inserts that would exceed it are not taken)
MaxRows == 1
\* most Database() constructions in one process
MaxConnects == 2
\* longest columns / values list given to the statement builder (SpecStmt)
MaxCols == 3
\* most runs of initialize_database
MaxRuns == 4

\* ------------------------------------------------------------- input sets
\* column names; ID and NAME are the columns of the modelled table
ID == <<"i", "d">>
NAME == <<"n">>
TMP == <<"_", "t">>
NAME_ == <<"n", "_">>
TableColumns == {ID, NAME}
\* attribute / column names the ORM operations are given: a column of the table
\* and a private attribute (the key column ID is left to the server's default)
Names == {NAME, TMP}
StmtNames == {ID, NAME, TMP, NAME_}
Values == {"v1", "v2"}
None == "None"

Lists(S, n) == UNION {[1..k -> S] : k \in 0..n}

Min(a, b) == IF a <= b THEN a ELSE b

\* ------------------------------------------------------- Python built-ins
\* (str.endswith('_') in its place)
EndsWithUnderscore(col) == Len(col) >= 1 /\ col[Len(col)] = "_"

\* str.startswith('_')
StartsWithUnderscore(col) == Len(col) >= 1 /\ col[1] = "_"

\* zip(a, b): pairs up to the shorter of the two
Zip(a, b) == [i \in 1..Min(Len(a), Len(b)) |-> <<a[i], b[i]>>]

EmptyDict == <<>>

HasKey(d, k) == \E i \in DOMAIN d : d[i][1] = k

\* d[k] for a key that is present
Get(d, k) == d[CHOOSE i \in DOMAIN d : d[i][1] = k][2]

\* d[k] = v: an existing key keeps its place and takes the new value
DictSet(d, k, v) ==
    IF HasKey(d, k)
    THEN [i \in DOMAIN d |-> IF d[i][1] = k THEN <<k, v>> ELSE d[i]]
    ELSE Append(d, <<k, v>>)

Keys(d) == [i \in DOMAIN d |-> d[i][1]]

Vals(d) == [i \in DOMAIN d |-> d[i][2]]

\* dict equality ignores order
DictEq(d, e) == {d[i] : i \in DOMAIN d} = {e[i] : i \in DOMAIN e}

\* dicts with at most n keys drawn from S, every insertion order
Dicts(S, n) ==
    {d \in Lists(S \X Values, n) : \A i, j \in DOMAIN d : d[i][1] = d[j][1] => i = j}

\* {col: val for col, val in pairs if not col.startswith('_')}
RECURSIVE PublicDict(_, _)
PublicDict(pairs, d) ==
    IF pairs = <<>> THEN d
    ELSE PublicDict(Tail(pairs),
                    IF StartsWithUnderscore(Head(pairs)[1]) THEN d
                    ELSE DictSet(d, Head(pairs)[1], Head(pairs)[2]))

VARIABLES
    instance,     \* Database._instance: "None" or "Database"
    connection,   \* Database._instance._connection: 0 unset, n the n-th handle
    connects,     \* psycopg2.connect calls made by Database.__init__
    tx,           \* the connection's transaction: "idle", "intrans", "inerror"
    rows,         \* the table as the connection sees it
    committed,    \* the table as committed
    op,           \* the last operation and the arguments the claims refer to
    result,       \* what the last operation returned or raised
    calls,        \* what the last operation called, in order: "sql" (a statement
                  \* is built), "execute", "fetchone", "fetchall", "commit", ...
    columns,      \* SpecStmt: the columns argument
    values,       \* SpecStmt: the values argument
    stmt,         \* SpecStmt: the INSERT statement built from them
    bpc,          \* SpecBoot: position of the run in initialize_database
    applyFlag,    \* SpecBoot: the local _apply_schema
    dbExists,     \* SpecBoot: the target database is in pg_database
    schemaApplied,\* SpecBoot: the schema file's statements have been executed
    fileExists,   \* SpecBoot: database_config/schema.sql exists
    creates,      \* SpecBoot: CREATE DATABASE statements that succeeded
    applies,      \* SpecBoot: executions of the schema file that succeeded
    cur,          \* SpecBoot: what the run in progress has seen and done
    runLog        \* SpecBoot: the finished runs

ormVars == <<instance, connection, connects, tx, rows, committed, op, result, calls>>
stmtVars == <<columns, values, stmt>>
bootVars == <<bpc, applyFlag, dbExists, schemaApplied, fileExists, creates, applies, cur, runLog>>
vars == <<ormVars, stmtVars, bootVars>>

\* ------------------------------------------------- results and statements
NoStmt == [kind |-> "none", fields |-> <<>>, params |-> <<>>, where |-> <<>>]

Return == [kind |-> "return", dict |-> <<>>, list |-> <<>>, count |-> 0,
           exc |-> "none", msg |-> "none"]

Raise(exc, msg) == [kind |-> "raise", dict |-> <<>>, list |-> <<>>, count |-> 0,
                    exc |-> exc, msg |-> msg]

\* the operation last performed; only the fields that operation takes are set
Op(name) == [name |-> name, autocommit |-> FALSE, failAt |-> "none", ncols |-> 0,
             nvals |-> 0, self |-> <<>>, table_id |-> <<>>, record_id |-> <<>>]

\* ------------------------------------------------- the database (PostgreSQL)
\* cursor.description of the table: its columns in order
TableOrder == <<ID, NAME>>

Ids(rs) == {r[ID] : r \in rs}

\* the row an INSERT of `record` stores: absent columns take their defaults
NewRow(record, freshId) ==
    [c \in TableColumns |->
        IF HasKey(record, c) THEN Get(record, c)
        ELSE IF c = ID THEN freshId ELSE None]

\* dict(zip(record_columns, record_values)) of a row
RowDict(row) == [i \in DOMAIN TableOrder |-> <<TableOrder[i], row[TableOrder[i]]>>]

\* the server accepts INSERT INTO t (fields) VALUES (...) RETURNING *
InsertExecutes(record, freshId) ==
    /\ tx # "inerror"
    /\ record # <<>>
    /\ \A i \in DOMAIN record : record[i][1] \in TableColumns
    /\ NewRow(record, freshId)[ID] \notin Ids(rows)
    /\ Cardinality(rows) < MaxRows

\* a row satisfies "c1 = %s AND c2 = %s ..." bound to wvals
WhereMatch(r, clause, wvals) ==
    \A i \in DOMAIN clause : i \in DOMAIN wvals /\ r[clause[i]] = wvals[i]

Matching(clause, wvals) == {r \in rows : WhereMatch(r, clause, wvals)}

\* UPDATE t SET c1 = %s, ... WHERE w1 = %s AND ...: the parameters are bound
\* to the placeholders by position, the SET columns first
SetParams(cols, params) == SubSeq(params, 1, Len(cols))

WhereParams(cols, params) == SubSeq(params, Len(cols) + 1, Len(params))

ParamsFit(cols, clause, params) == Len(params) = Len(cols) + Len(clause)

UpdatedRow(r, cols, params) ==
    [c \in TableColumns |->
        IF \E i \in DOMAIN cols : cols[i] = c
        THEN SetParams(cols, params)[CHOOSE i \in DOMAIN cols : cols[i] = c]
        ELSE r[c]]

Affected(cols, clause, params) == Matching(clause, WhereParams(cols, params))

UpdatedRows(cols, clause, params) ==
    {IF r \in Affected(cols, clause, params) THEN UpdatedRow(r, cols, params) ELSE r :
        r \in rows}

\* the server accepts the UPDATE: a SET list and a WHERE condition are there,
\* the columns exist, none is assigned twice, the key stays unique
UpdateExecutes(cols, clause, params) ==
    /\ tx # "inerror"
    /\ cols # <<>>
    /\ clause # <<>>
    /\ ParamsFit(cols, clause, params)
    /\ \A i \in DOMAIN cols : cols[i] \in TableColumns
    /\ \A i, j \in DOMAIN cols : cols[i] = cols[j] => i = j
    /\ Cardinality(Ids(UpdatedRows(cols, clause, params))) = Cardinality(rows)

\* the server accepts SELECT * FROM t [WHERE clause]
SelectExecutes(clause, wvals) ==
    /\ tx # "inerror"
    /\ Len(wvals) = Len(clause)

\* ------------------------------------------------------ orm/database.py
\* Database(): __new__ returns the singleton, creating it when there is none;
\* Python then runs __init__ on the object __new__ returned, and __init__
\* connects. The connection it replaces takes its open transaction with it.
\* (A connect that raises ends the process: nothing follows it.)
DatabaseCall ==
    /\ connects < MaxConnects
    /\ instance' = "Database"
    /\ connects' = connects + 1
    /\ connection' = connects + 1
    /\ tx' = "idle"
    /\ rows' = committed
    /\ op' = Op("Database")
    /\ result' = Return
    /\ calls' = <<"connect">>
    /\ UNCHANGED <<committed, stmtVars, bootVars>>

\* connection.commit(): COMMIT of a failed transaction rolls it back
Commit ==
    /\ connection # 0
    /\ committed' = IF tx = "inerror" THEN committed ELSE rows
    /\ rows' = committed'
    /\ tx' = "idle"
    /\ op' = Op("commit")
    /\ result' = Return
    /\ calls' = <<"commit">>
    /\ UNCHANGED <<instance, connection, connects, stmtVars, bootVars>>

\* connection.rollback()
Rollback ==
    /\ connection # 0
    /\ rows' = committed
    /\ tx' = "idle"
    /\ op' = Op("rollback")
    /\ result' = Return
    /\ calls' = <<"rollback">>
    /\ UNCHANGED <<instance, connection, connects, committed, stmtVars, bootVars>>

\* lines 83-90: the record and the statement built from it
InsertRecordDict(cols, vals) == PublicDict(Zip(cols, vals), EmptyDict)

InsertStatement(cols, vals) ==
    [kind |-> "INSERT",
     fields |-> Keys(InsertRecordDict(cols, vals)),
     params |-> Vals(InsertRecordDict(cols, vals)),
     where |-> <<>>]

\* (a commit made whatever autocommit says)
CommitsAlways(autocommit) == TRUE

\* `if autocommit: self.commit()`
CommitsAfter(autocommit) == autocommit

\* the steps of insert_record that can fail, and when each can be reached
InsertFailPoints == {"none", "execute", "fetchone", "commit"}

InsertFeasible(cols, vals, autocommit, failAt, freshId) ==
    /\ IF failAt = "execute" THEN freshId = None
       ELSE freshId # None /\ InsertExecutes(InsertRecordDict(cols, vals), freshId)
    /\ failAt = "commit" => CommitsAfter(autocommit)

\* insert_record: what it returns, the driver calls it makes, the connection after
insert_record(cols, vals, autocommit, failAt, freshId) ==
    LET record == InsertRecordDict(cols, vals)
        inserted == RowDict(NewRow(record, freshId))
        after == rows \cup {NewRow(record, freshId)}
    IN  CASE failAt = "execute" ->
               [ret |-> EmptyDict, calls |-> <<"sql", "execute", "rollback">>,
                rows |-> committed, committed |-> committed, tx |-> "idle"]
          [] failAt = "fetchone" ->
               [ret |-> EmptyDict, calls |-> <<"sql", "execute", "fetchone", "rollback">>,
                rows |-> committed, committed |-> committed, tx |-> "idle"]
          [] failAt = "commit" ->
               [ret |-> inserted,
                calls |-> <<"sql", "execute", "fetchone", "commit", "rollback">>,
                rows |-> committed, committed |-> committed, tx |-> "idle"]
          [] OTHER ->
               IF CommitsAfter(autocommit)
               THEN [ret |-> inserted, calls |-> <<"sql", "execute", "fetchone", "commit">>,
                     rows |-> after, committed |-> after, tx |-> "idle"]
               ELSE [ret |-> inserted, calls |-> <<"sql", "execute", "fetchone">>,
                     rows |-> after, committed |-> committed, tx |-> "intrans"]

\* arguments of a direct insert_record call
InsertArgs == {a \in Lists(Names, MaxLen) \X Lists(Values, MaxLen) : Len(a[1]) = Len(a[2])}

InsertRecord ==
    /\ connection # 0
    /\ \E a \in InsertArgs, autocommit \in BOOLEAN, failAt \in InsertFailPoints,
          freshId \in Values \cup {None} :
        /\ InsertFeasible(a[1], a[2], autocommit, failAt, freshId)
        /\ LET out == insert_record(a[1], a[2], autocommit, failAt, freshId)
           IN  /\ result' = [Return EXCEPT !.dict = out.ret]
               /\ calls' = out.calls
               /\ rows' = out.rows
               /\ committed' = out.committed
               /\ tx' = out.tx
        /\ op' = [Op("insert_record") EXCEPT !.autocommit = autocommit, !.failAt = failAt]
    /\ UNCHANGED <<instance, connection, connects, stmtVars, bootVars>>

\* (a check that only catches too few values)
ColumnsValuesMismatchOneSided(cols, vals) == Len(cols) > Len(vals)

\* `if len(columns) != len(values): raise ValueError`
ColumnsValuesMismatch(cols, vals) == Len(cols) # Len(vals)

UpdateFailPoints == {"none", "execute", "commit"}

\* where_clause / where_values pairs: the clause is the list of its "col = %s" terms
WhereArgs ==
    {w \in Lists({ID}, MaxLen) \X Lists(Values, MaxLen) : Len(w[2]) <= Len(w[1])}

UpdateArgs == Lists(Names, MaxLen) \X Lists(Values, MaxLen)

UpdateRecord ==
    /\ connection # 0
    /\ \E a \in UpdateArgs :
        IF ColumnsValuesMismatch(a[1], a[2])
        THEN /\ op' = [Op("update_record") EXCEPT
                          !.ncols = Len(a[1]), !.nvals = Len(a[2])]
             /\ result' = Raise("ValueError",
                                "The number of columns must match the number of values.")
             /\ calls' = <<>>
             /\ UNCHANGED <<tx, rows, committed>>
        ELSE \E w \in WhereArgs, autocommit \in BOOLEAN, failAt \in UpdateFailPoints :
             LET params == a[2] \o w[2]
             IN  /\ failAt # "execute" => UpdateExecutes(a[1], w[1], params)
                 /\ failAt = "commit" => CommitsAfter(autocommit)
                 /\ op' = [Op("update_record") EXCEPT
                              !.ncols = Len(a[1]), !.nvals = Len(a[2]),
                              !.autocommit = autocommit, !.failAt = failAt]
                 /\ CASE failAt = "execute" ->
                           \* not sent when the parameters do not fit the placeholders
                           /\ result' = Raise("DatabaseError", "execute")
                           /\ calls' = <<"sql", "execute">>
                           /\ tx' = IF ParamsFit(a[1], w[1], params) THEN "inerror" ELSE tx
                           /\ UNCHANGED <<rows, committed>>
                      [] failAt = "commit" ->
                           /\ result' = Raise("DatabaseError", "commit")
                           /\ calls' = <<"sql", "execute", "commit">>
                           /\ tx' = "idle"
                           /\ rows' = committed
                           /\ UNCHANGED committed
                      [] OTHER ->
                           /\ result' = [Return EXCEPT
                                  !.count = Cardinality(Affected(a[1], w[1], params))]
                           /\ rows' = UpdatedRows(a[1], w[1], params)
                           /\ IF CommitsAfter(autocommit)
                              THEN /\ calls' = <<"sql", "execute", "commit">>
                                   /\ committed' = rows'
                                   /\ tx' = "idle"
                              ELSE /\ calls' = <<"sql", "execute">>
                                   /\ tx' = "intrans"
                                   /\ UNCHANGED committed
    /\ UNCHANGED <<instance, connection, connects, stmtVars, bootVars>>

\* ---------------------------------------------------------- orm/base.py
\* the primary keys a model class may declare (its class attribute table_id)
TableIds == {<<>>, <<ID>>}

\* BaseModel.__init__(self, **kwargs): pass -- the instance's __dict__ afterwards
BaseModelInit(kwargs) == EmptyDict

\* the property dict_record of an instance whose __dict__ is `self`
dict_record(self) == PublicDict(self, EmptyDict)

\* lines 64-67 of dump: record[col_id] for every key column, KeyError when absent
dump_record_id(record, table_id) ==
    IF \E i \in DOMAIN table_id : ~HasKey(record, table_id[i])
    THEN Raise("KeyError", "record[col_id]")
    ELSE [Return EXCEPT !.list = [i \in DOMAIN table_id |-> Get(record, table_id[i])]]

Dump ==
    /\ connection # 0
    /\ \E self \in Dicts(Names, MaxLen), table_id \in TableIds,
          failAt \in InsertFailPoints, freshId \in Values \cup {None} :
        LET cols == Keys(dict_record(self))
            vals == Vals(dict_record(self))
            out == insert_record(cols, vals, FALSE, failAt, freshId)
        IN  /\ InsertFeasible(cols, vals, FALSE, failAt, freshId)
            /\ result' = dump_record_id(out.ret, table_id)
            /\ calls' = out.calls
            /\ rows' = out.rows
            /\ committed' = out.committed
            /\ tx' = out.tx
            /\ op' = [Op("dump") EXCEPT !.self = self, !.table_id = table_id,
                                        !.failAt = failAt]
    /\ UNCHANGED <<instance, connection, connects, stmtVars, bootVars>>

\* `if len(record_id) != len(cls.table_id): raise ValueError`
RecordIdMismatch(record_id, table_id) == Len(record_id) # Len(table_id)

\* the ValueError of line 98 and the ValueError of line 103; {} stands for the
\* text the f-string or format() puts in
LookupFailed == Raise("ValueError", "Failed to fetch record from database. Error: {}")

NotFound == Raise("ValueError", "Record ID: {} not found.")

\* (None returned when no record is found)
from_records_or_none(records) ==
    IF records # <<>>
    THEN [Return EXCEPT !.dict = BaseModelInit(records[1])]
    ELSE Return

\* lines 100-103: an instance from the first record, or the not-found error
from_records(records) ==
    IF records # <<>>
    THEN [Return EXCEPT !.dict = BaseModelInit(records[1])]
    ELSE NotFound

FromDatabaseId ==
    /\ connection # 0
    /\ \E table_id \in TableIds, record_id \in Lists(Values, MaxLen) :
        IF RecordIdMismatch(record_id, table_id)
        THEN /\ op' = [Op("from_database_id") EXCEPT
                          !.table_id = table_id, !.record_id = record_id]
             /\ result' = Raise("ValueError", "Record ID ({}) does not match table ID ({}).")
             /\ calls' = <<>>
             /\ UNCHANGED tx
        ELSE \E ok \in BOOLEAN :
             /\ ok => SelectExecutes(table_id, record_id)
             /\ op' = [Op("from_database_id") EXCEPT
                          !.table_id = table_id, !.record_id = record_id,
                          !.failAt = IF ok THEN "none" ELSE "execute"]
             /\ IF ok
                THEN /\ calls' = <<"sql", "execute", "fetchall">>
                     /\ tx' = "intrans"
                     /\ IF Matching(table_id, record_id) = {}
                        THEN result' = from_records(<<>>)
                        ELSE \E r \in Matching(table_id, record_id) :
                                result' = from_records(<<RowDict(r)>>)
                ELSE /\ calls' = <<"sql", "execute">>
                     /\ tx' = "inerror"
                     /\ result' = LookupFailed
    /\ UNCHANGED <<instance, connection, connects, rows, committed, stmtVars, bootVars>>

\* ------------------------------------- the INSERT statement (SpecStmt)
\* lines 83-90 of insert_record applied to the arguments drawn at the start
BuildInsert ==
    /\ stmt = NoStmt
    /\ stmt' = InsertStatement(columns, values)
    /\ UNCHANGED <<ormVars, columns, values, bootVars>>

\* ------------------------------------------ database_config/initialize.py
NewRun == [existed |-> FALSE, created |-> FALSE, applied |-> FALSE, outcome |-> "none"]

\* database_exists(conn, dbname): a row of pg_database has that name
database_exists == dbExists

\* the run ends: by returning, or with the exception a step raised
EndRun(run, outcome) ==
    /\ runLog' = Append(runLog, [run EXCEPT !.outcome = outcome])
    /\ cur' = NewRun
    /\ bpc' = "idle"

\* lines 70-80: _apply_schema = False, connect to the 'postgres' database
BootConnect ==
    /\ bpc = "idle"
    /\ Len(runLog) < MaxRuns
    /\ applyFlag' = FALSE
    /\ \E ok \in BOOLEAN :
        IF ok
        THEN /\ bpc' = "connected"
             /\ cur' = NewRun
             /\ UNCHANGED runLog
        ELSE EndRun(NewRun, "raised")
    /\ UNCHANGED <<dbExists, schemaApplied, fileExists, creates, applies, ormVars, stmtVars>>

\* lines 82-85: create the database when it does not exist, remember to apply
\* the schema, close the connection
BootCreate ==
    /\ bpc = "connected"
    /\ IF ~database_exists
       THEN \E ok \in BOOLEAN :
            IF ok
            THEN /\ dbExists' = TRUE
                 /\ creates' = creates + 1
                 /\ applyFlag' = TRUE
                 /\ cur' = [cur EXCEPT !.existed = dbExists, !.created = TRUE]
                 /\ bpc' = "closed"
                 /\ UNCHANGED runLog
            ELSE /\ EndRun([cur EXCEPT !.existed = dbExists], "raised")
                 /\ UNCHANGED <<dbExists, creates, applyFlag>>
       ELSE /\ cur' = [cur EXCEPT !.existed = dbExists]
            /\ bpc' = "closed"
            /\ UNCHANGED <<dbExists, creates, applyFlag, runLog>>
    /\ UNCHANGED <<schemaApplied, fileExists, applies, ormVars, stmtVars>>

\* (the schema applied on every run)
ApplyAlways(flag) == TRUE

\* `if _apply_schema:`
ApplyDecision(flag) == flag

\* lines 88-96: connect to the new database when the schema is to be applied
BootConnectDb ==
    /\ bpc = "closed"
    /\ IF ApplyDecision(applyFlag)
       THEN \E ok \in BOOLEAN :
            IF ok
            THEN /\ bpc' = "dbconnected"
                 /\ UNCHANGED <<cur, runLog>>
            ELSE EndRun(cur, "raised")
       ELSE EndRun(cur, "returned")
    /\ UNCHANGED <<applyFlag, dbExists, schemaApplied, fileExists, creates, applies,
                   ormVars, stmtVars>>

\* apply_schema: FileNotFoundError when the file is missing, else its contents
\* are executed as one batch, which the server accepts or rejects
apply_schema(executes) ==
    IF ~fileExists THEN "raised"
    ELSE IF executes THEN "applied" ELSE "raised"

\* line 97: apply_schema(db_conn, 'database_config/schema.sql')
BootApplySchema ==
    /\ bpc = "dbconnected"
    /\ \E executes \in BOOLEAN :
        IF apply_schema(executes) = "applied"
        THEN /\ schemaApplied' = TRUE
             /\ applies' = applies + 1
             /\ EndRun([cur EXCEPT !.applied = TRUE], "returned")
        ELSE /\ EndRun(cur, "raised")
             /\ UNCHANGED <<schemaApplied, applies>>
    /\ UNCHANGED <<applyFlag, dbExists, fileExists, creates, ormVars, stmtVars>>

\* the schema file is added to or removed from the working directory
SchemaFileChange ==
    /\ fileExists' = ~fileExists
    /\ UNCHANGED <<bpc, applyFlag, dbExists, schemaApplied, creates, applies, cur,
                   runLog, ormVars, stmtVars>>

\* ------------------------------------------------------------ specification
BootInit ==
    /\ bpc = "idle"
    /\ applyFlag = FALSE
    /\ dbExists = FALSE
    /\ schemaApplied = FALSE
    /\ fileExists \in BOOLEAN
    /\ creates = 0
    /\ applies = 0
    /\ cur = NewRun
    /\ runLog = <<>>

OrmInit ==
    /\ instance = "None"
    /\ connection = 0
    /\ connects = 0
    /\ tx = "idle"
    /\ rows = {}
    /\ committed = {}
    /\ op = Op("start")
    /\ result = Return
    /\ calls = <<>>

Init ==
    /\ OrmInit
    /\ BootInit
    /\ fileExists = TRUE
    /\ columns = <<>>
    /\ values = <<>>
    /\ stmt = NoStmt

Next ==
    \/ DatabaseCall
    \/ Commit
    \/ Rollback
    \/ InsertRecord
    \/ UpdateRecord
    \/ Dump
    \/ FromDatabaseId

Spec == Init /\ [][Next]_vars

StmtInit ==
    /\ OrmInit
    /\ BootInit
    /\ fileExists = TRUE
    /\ columns \in Lists(StmtNames, MaxCols)
    /\ values \in Lists(Values, MaxCols)
    /\ stmt = NoStmt

StmtNext == BuildInsert

SpecStmt == StmtInit /\ [][StmtNext]_vars

BootFullInit ==
    /\ OrmInit
    /\ BootInit
    /\ columns = <<>>
    /\ values = <<>>
    /\ stmt = NoStmt

BootNext ==
    \/ BootConnect
    \/ BootCreate
    \/ BootConnectDb
    \/ BootApplySchema
    \/ SchemaFileChange

SpecBoot == BootFullInit /\ [][BootNext]_vars

\* ------------------------------------------------------------------ claims
Called(c) == \E i \in DOMAIN calls : calls[i] = c

\* C1: across any sequence of Database() constructions the connection is
\* established exactly once, on the first; every later construction returns the
\* same manager with the same handle and makes no new connect.
C1_ConnectOnce == instance = "Database" => connects = 1 /\ connection = 1

\* C2: an insert_record call in which a step fails (execute, fetching the row,
\* or the commit made under autocommit) has rolled the transaction back, raises
\* nothing and returns the empty mapping.
C2_InsertFailure ==
    (op.name = "insert_record" /\ op.failAt # "none") =>
        /\ result.kind = "return"
        /\ result.dict = EmptyDict
        /\ Called("rollback")
        /\ tx = "idle"
        /\ rows = committed

\* C3: when the underlying insert fails, dump() raises nothing and returns a
\* result without key values, whatever the class's table_id.
C3_DumpSilent ==
    (op.name = "dump" /\ op.failAt # "none") =>
        result.kind = "return" /\ result.list = <<>>

\* C4: an update_record call with len(columns) != len(values), and a
\* from_database_id call with len(record_id) != len(table_id), raises ValueError
\* before any statement is built or executed, and leaves the transaction and the
\* rows as they were.
C4_ValidationFirst ==
    [][(\/ op'.name = "update_record" /\ op'.ncols # op'.nvals
        \/ op'.name = "from_database_id" /\ Len(op'.record_id) # Len(op'.table_id))
       => /\ result'.kind = "raise"
          /\ result'.exc = "ValueError"
          /\ calls' = <<>>
          /\ UNCHANGED <<tx, rows, committed>>]_vars

C4_Witness ==
    /\ op.name = "update_record"
    /\ op.ncols # op.nvals
    /\ result.kind = "raise"
    /\ tx = "intrans"
    /\ rows # committed

\* C5: a from_database_id call with a key list of the right size whose query
\* matches no row raises the not-found error (it returns neither None nor an
\* instance), and the error of a failed query is a different one.
C5_NotFound ==
    op.name = "from_database_id" /\ Len(op.record_id) = Len(op.table_id) =>
        /\ (op.failAt = "none" /\ Matching(op.table_id, op.record_id) = {}) =>
              /\ result.kind = "raise"
              /\ result.exc = "ValueError"
              /\ result.msg = "Record ID: {} not found."
        /\ op.failAt = "execute" =>
              result.kind = "raise" /\ result.msg # "Record ID: {} not found."

C5_Witness ==
    /\ op.name = "from_database_id"
    /\ op.table_id = <<ID>>
    /\ Len(op.record_id) = 1
    /\ op.failAt = "none"
    /\ rows # {}
    /\ Matching(op.table_id, op.record_id) = {}
    /\ result.kind = "raise"

\* C6: dump() followed by from_database_id() with the key values dump()
\* returned yields an instance whose public attributes equal the original's.
C6_RoundTrip ==
    [][(/\ op.name = "dump"
        /\ op.table_id # <<>>
        /\ result.kind = "return"
        /\ op'.name = "from_database_id"
        /\ op'.table_id = op.table_id
        /\ op'.record_id = result.list
        /\ result'.kind = "return")
       => DictEq(dict_record(result'.dict), dict_record(op.self))]_vars

\* C7: a run of initialize_database that finds no database creates it and
\* applies the schema, once; a run that finds the database creates nothing and
\* applies nothing. Over all runs there is at most one creation and one
\* application of the schema.
C7_BootstrapOnce ==
    /\ creates <= 1
    /\ applies <= 1
    /\ \A i \in DOMAIN runLog :
        /\ runLog[i].existed => ~runLog[i].created /\ ~runLog[i].applied
        /\ (~runLog[i].existed /\ runLog[i].outcome = "returned") =>
              runLog[i].created /\ runLog[i].applied

C7_Witness ==
    /\ Len(runLog) >= 2
    /\ runLog[1] = [existed |-> FALSE, created |-> TRUE, applied |-> TRUE,
                    outcome |-> "returned"]
    /\ runLog[2].existed
    /\ runLog[2].outcome = "returned"
    /\ creates = 1
    /\ applies = 1

\* an insert_record / update_record call that got past validation
StatementCall ==
    \/ op.name = "insert_record"
    \/ op.name = "update_record" /\ op.ncols = op.nvals

\* a change made by the open transaction is waiting for its end
PendingChange == tx = "intrans" /\ rows # committed

\* C8 (as stated): insert_record and update_record commit iff autocommit is true
\* and the statement succeeded, right after the statement; with autocommit false
\* the change stays in the open transaction until the caller calls commit() or
\* rollback(). (A later call made with autocommit=true, and a new Database(),
\* are counted here as the caller's doing.)
C8_CallerControlled ==
    /\ [](StatementCall =>
            (Called("commit") <=> op.autocommit /\ op.failAt \in {"none", "commit"}))
    /\ [][(PendingChange /\ tx' = "idle") =>
            (op'.name \in {"commit", "rollback", "Database"} \/ op'.autocommit)]_vars

\* C8 (amended): the commit is made iff autocommit is true and the statement
\* succeeded, right after the statement; a successful call with autocommit false
\* commits and rolls back nothing and leaves the transaction open; the open
\* transaction ends only at a commit or rollback on the connection (commit(),
\* rollback(), the commit of an autocommit=true call, the rollback of a failed
\* insert_record) or when Database() replaces the connection.
C8_TransactionBoundaries ==
    /\ [](StatementCall =>
            /\ Called("commit") <=> op.autocommit /\ op.failAt \in {"none", "commit"}
            /\ Called("commit") =>
                  \E i \in DOMAIN calls :
                      /\ calls[i] = "commit"
                      /\ calls[i - 1] \in {"execute", "fetchone"}
                      /\ \A j \in 1..(i - 1) : calls[j] \in {"sql", "execute", "fetchone"}
            /\ (op.name = "insert_record" /\ op.failAt # "none") <=>
                  (op.name = "insert_record" /\ Called("rollback")))
    /\ [][(StatementCall' /\ ~op'.autocommit /\ op'.failAt = "none") =>
            /\ committed' = committed
            /\ tx' = "intrans"
            /\ ~Called("commit")' /\ ~Called("rollback")']_vars
    /\ [][(PendingChange /\ (tx' = "idle" \/ committed' # committed)) =>
            (Called("commit")' \/ Called("rollback")' \/ Called("connect")')]_vars

C8_Witness ==
    /\ op.name = "insert_record"
    /\ ~op.autocommit
    /\ op.failAt = "none"
    /\ PendingChange
    /\ ~Called("commit")

\* a (column, value) pair whose column does not begin with '_'
IsPublicPair(p) == ~(Len(p[1]) >= 1 /\ p[1][1] = "_")

PublicPairs == SelectSeq(Zip(columns, values), IsPublicPair)

\* C9 (as stated): the INSERT statement's fields and bound parameters are
\* exactly the (column, value) pairs whose column does not begin with '_'.
C9_ExactPublicPairs ==
    stmt.kind = "INSERT" =>
        /\ Len(stmt.fields) = Len(stmt.params)
        /\ {<<stmt.fields[i], stmt.params[i]>> : i \in DOMAIN stmt.fields}
              = {PublicPairs[i] : i \in DOMAIN PublicPairs}

\* the places of PublicPairs where a column name occurs for the first time
FirstPlaces == {i \in DOMAIN PublicPairs :
                   \A j \in 1..(i - 1) : PublicPairs[j][1] # PublicPairs[i][1]}

\* the value of the last pair of PublicPairs with column name c
LastValue(c) ==
    PublicPairs[CHOOSE i \in DOMAIN PublicPairs :
                   /\ PublicPairs[i][1] = c
                   /\ \A j \in DOMAIN PublicPairs : PublicPairs[j][1] = c => j <= i][2]

\* C9 (amended): no column beginning with '_' is sent; when the public column
\* names are distinct the statement holds exactly the public pairs, in order; a
\* public name that occurs several times is sent once, in the place of its first
\* occurrence, bound to the value of its last.
C9_PublicPairs ==
    stmt.kind = "INSERT" =>
        /\ Len(stmt.fields) = Len(stmt.params)
        /\ \A k \in DOMAIN stmt.fields : IsPublicPair(<<stmt.fields[k], stmt.params[k]>>)
        /\ Cardinality(FirstPlaces) = Len(PublicPairs) =>
              Zip(stmt.fields, stmt.params) = PublicPairs
        /\ Len(stmt.fields) = Cardinality(FirstPlaces)
        /\ \A i \in FirstPlaces :
              LET k == Cardinality({j \in FirstPlaces : j <= i})
              IN  /\ stmt.fields[k] = PublicPairs[i][1]
                  /\ stmt.params[k] = LastValue(PublicPairs[i][1])

C9_Witness ==
    /\ stmt.kind = "INSERT"
    /\ columns = <<NAME, TMP, NAME_>>
    /\ values = <<"v1", "v1", "v2">>
    /\ stmt.fields = <<NAME, NAME_>>
    /\ stmt.params = <<"v1", "v2">>

====
